---- MODULE Spec2Model ----
(***************************************************************************)
(* The integrations store (src/stores/integrations/index.ts): a Pinia      *)
(* store caching an overview snapshot, with its staleness getter, the      *)
(* fetch action and its error handling, the derived activity log, the      *)
(* clear action and the auto-refresh timer.                                *)
(*                                                                         *)
(* Optional values (T | null, an absent property) are sets of at most one  *)
(* element: None is null/undefined, Some(x) a present value.  Time is in   *)
(* milliseconds, as Date.now() gives it.                                   *)
(***************************************************************************)
EXTENDS Integers, Sequences, FiniteSets, TLC

VARIABLES
    overview,          \* state.overview: the cached snapshot or null
    recentActivity,    \* state.recentActivity: the derived activity log
    loading,           \* state.loading
    error,             \* state.error: message or null
    lastFetched,       \* state.lastFetched: Date or null
    now,               \* the wall clock, Date.now()
    inflight,          \* fetchOverview calls suspended at an await
    issued,            \* number of $fetch requests issued so far
    localStorage,      \* the authUser / authToken entries of localStorage
    cookie,            \* the authToken cookie
    client,            \* process.client
    timers,            \* the intervals registered by setInterval
    pendingRedirects,  \* setTimeout callbacks that will navigate to /login
    route,             \* the current route
    op,                \* the operation the last step ran, with its inputs
    ret                \* the value a fetchOverview call returned in the last step

vars == <<overview, recentActivity, loading, error, lastFetched, now, inflight,
          issued, localStorage, cookie, client, timers, pendingRedirects,
          route, op, ret>>

storeVars == <<overview, recentActivity, loading, error, lastFetched>>
authVars == <<localStorage, cookie, pendingRedirects>>

-----------------------------------------------------------------------------
(* Bounds of the model *)

MaxRequests == 2      \* requests issued in one behaviour
MaxInFlight == 2      \* fetchOverview calls suspended at once
MaxClockSteps == 3    \* steps the clock takes in one behaviour
MaxTimers == 1        \* intervals registered by startAutoRefresh

-----------------------------------------------------------------------------
(* Optional values *)

None == {}
Some(x) == {x}
The(o) == CHOOSE x \in o : TRUE

\* JavaScript truthiness of an optional string: absent and "" are falsy.
Truthy(o) == o # None /\ The(o) # ""

MaxAutoClockSteps == 22   \* steps of one minute under auto-refresh alone

-----------------------------------------------------------------------------
(* Time *)

AutoStepMs == 60 * 1000       \* under auto-refresh alone, steps of one minute
ClockStepMs == 150 * 1000     \* the clock moves in steps of 2.5 minutes
FiveMinutesMs == 5 * 60 * 1000
DefaultIntervalMs == 300000

\* needsRefresh with the boundary included: stale at exactly five minutes.
NeedsRefreshAtInclusive(fetched, t) ==
    IF fetched = None
    THEN TRUE
    ELSE LET fiveMinutesAgo == t - FiveMinutesMs
         IN  The(fetched) <= fiveMinutesAgo

\* needsRefresh getter: true without a fetch, else lastFetched older than
\* five minutes (a strict comparison of the two dates).
NeedsRefreshAt(fetched, t) ==
    IF fetched = None
    THEN TRUE
    ELSE LET fiveMinutesAgo == t - FiveMinutesMs
         IN  The(fetched) < fiveMinutesAgo

NeedsRefresh == NeedsRefreshAt(lastFetched, now)

-----------------------------------------------------------------------------
(* Data: overview snapshots, activity entries, responses and errors *)

Statuses == {"connected", "disconnected", "error"}

Overview(slack, teams, whatsapp, users, messages) ==
    [integrationStatus |-> [slack |-> slack, teams |-> teams, whatsapp |-> whatsapp],
     userCounts |-> users,
     todayMessages |-> messages]

UsersA == [slack |-> 12, teams |-> 4, whatsapp |-> 0]
UsersB == [slack |-> 0, teams |-> 9, whatsapp |-> 31]

\* The snapshots the server answers with in the store's state machine.
OverviewA == Overview("connected", "connected", "disconnected", UsersA, 120)
OverviewB == Overview("disconnected", "error", "connected", UsersB, 0)
Overviews == {OverviewA, OverviewB}

\* Every combination of statuses and message counts, for the derivation.
AllOverviews ==
    {Overview(s, t, w, u, m) : s \in Statuses, t \in Statuses, w \in Statuses,
                               u \in {UsersA, UsersB}, m \in {0, 1, 120}}

\* Date.prototype.toISOString and Number.prototype.toLocaleString: the text
\* of a value, kept as the value tagged with its format.
ToISOString(ts) == <<"iso", ts>>
ToLocaleString(n) == <<"locale", n>>

Activity(id, type, message, ts) ==
    [id |-> id, type |-> type, message |-> message,
     time |-> ToISOString(ts), timestamp |-> ts]

\* An error object as the catch block sees it: err.statusCode,
\* err.response.status, err.data.message and err.message, each optional.
ErrorObject(statusCode, responseStatus, dataMessage, message) ==
    [statusCode |-> statusCode, responseStatus |-> responseStatus,
     dataMessage |-> dataMessage, message |-> message]

NoErrorObject == ErrorObject(None, None, None, None)

\* new Error(message): message is "" when the argument is undefined.
NewError(message) ==
    ErrorObject(None, None, None, Some(IF message = None THEN "" ELSE The(message)))

\* What $fetch ends with: a resolved response {status, data, message} or a
\* rejection with an error object.
Resolved(status, data, message) ==
    [rejected |-> FALSE, status |-> status, data |-> data, message |-> message,
     err |-> NoErrorObject]
Rejected(err) ==
    [rejected |-> TRUE, status |-> "", data |-> None, message |-> None, err |-> err]
NoOutcome == Resolved("", None, None)

SuccessOutcomes ==
    {Resolved("success", Some(o), m) : o \in Overviews, m \in {None, Some("ok")}}
FailureOutcomes ==
    {Resolved("error", None, m) : m \in {None, Some(""), Some("Upstream rejected")}}
RejectedOutcomes ==
    {Rejected(e) : e \in
        {NoErrorObject,
         ErrorObject(Some(401), None, None, Some("Unauthorized")),
         ErrorObject(None, Some(401), Some("Token expired"), None),
         ErrorObject(Some(401), Some(401), None, None),
         ErrorObject(Some(500), Some(500), Some("Server said no"), Some("Network down")),
         ErrorObject(Some(500), None, Some(""), Some("Network down")),
         ErrorObject(None, Some(500), Some("Server said no"), None),
         ErrorObject(None, None, None, Some("Network down")),
         ErrorObject(None, None, None, Some(""))}}
Outcomes == SuccessOutcomes \cup FailureOutcomes \cup RejectedOutcomes

\* The value fetchOverview returns: {success, data?, message?}.
Result(success, data, message) ==
    [success |-> success, data |-> data, message |-> message]

FallbackMessage == "Failed to fetch integrations overview"
AuthRequiredMessage == "Authentication required"

-----------------------------------------------------------------------------
(* Pure helpers of the store *)

\* The 401 test reading the top-level statusCode alone.
IsAuthErrorTopLevelOnly(err) ==
    err.statusCode = Some(401)

\* handleAuthError's test: a 401 in either shape.
IsAuthError(err) ==
    err.statusCode = Some(401) \/ err.responseStatus = Some(401)

\* handleError reading error.message before error.data.message.
HandleErrorGenericFirst(err, fallbackMessage) ==
    IF Truthy(err.message) THEN The(err.message)
    ELSE IF Truthy(err.dataMessage) THEN The(err.dataMessage)
    ELSE fallbackMessage

\* handleError: data.message, else message, else the fallback.
HandleError(err, fallbackMessage) ==
    IF Truthy(err.dataMessage) THEN The(err.dataMessage)
    ELSE IF Truthy(err.message) THEN The(err.message)
    ELSE fallbackMessage

\* The sort with the comparator reversed, (a, b) => a.timestamp - b.timestamp.
RECURSIVE SortOldestFirst(_)
SortOldestFirst(s) ==
    IF s = <<>>
    THEN <<>>
    ELSE LET front == SortOldestFirst(SubSeq(s, 1, Len(s) - 1))
             e == s[Len(s)]
             k == Cardinality({i \in 1..Len(front) : front[i].timestamp <= e.timestamp})
         IN  SubSeq(front, 1, k) \o <<e>> \o SubSeq(front, k + 1, Len(front))

\* Array.prototype.sort with (a, b) => b.timestamp - a.timestamp: a stable
\* sort, newest first.
RECURSIVE SortNewestFirst(_)
SortNewestFirst(s) ==
    IF s = <<>>
    THEN <<>>
    ELSE LET front == SortNewestFirst(SubSeq(s, 1, Len(s) - 1))
             e == s[Len(s)]
             k == Cardinality({i \in 1..Len(front) : front[i].timestamp >= e.timestamp})
         IN  SubSeq(front, 1, k) \o <<e>> \o SubSeq(front, k + 1, Len(front))

\* The entries generateRecentActivity pushes, in push order.
PushedActivities(o, t) ==
    (IF o.integrationStatus.slack = "connected"
     THEN <<Activity("slack-sync", "success",
                     <<"Slack integration active with", o.userCounts.slack, "users">>,
                     t - 2 * 60 * 1000)>>
     ELSE <<>>)
    \o
    (IF o.integrationStatus.teams = "connected"
     THEN <<Activity("teams-sync", "success",
                     <<"Teams integration active with", o.userCounts.teams, "users">>,
                     t - 5 * 60 * 1000)>>
     ELSE <<>>)
    \o
    (IF o.integrationStatus.whatsapp = "connected"
     THEN <<Activity("whatsapp-sync", "success",
                     <<"WhatsApp integration active with", o.userCounts.whatsapp, "users">>,
                     t - 10 * 60 * 1000)>>
     ELSE <<Activity("whatsapp-setup", "warning",
                     <<"WhatsApp integration setup required">>,
                     t - 24 * 60 * 60 * 1000)>>)
    \o
    (IF o.todayMessages > 0
     THEN <<Activity("token-usage", "info",
                     <<ToLocaleString(o.todayMessages), "messages processed today">>,
                     t - 60 * 60 * 1000)>>
     ELSE <<>>)

\* generateRecentActivity pushing onto the log it already holds.
GenerateRecentActivityMerging(ov, t, old) ==
    IF ov = None
    THEN old
    ELSE SortNewestFirst(old \o PushedActivities(The(ov), t))

\* generateRecentActivity: the new value of recentActivity, given the
\* snapshot in the store, the time and the log so far.
GenerateRecentActivity(ov, t, old) ==
    IF ov = None
    THEN old
    ELSE SortNewestFirst(PushedActivities(The(ov), t))

-----------------------------------------------------------------------------
(* The state machine *)

Op(name, force, out) == [name |-> name, force |-> force, out |-> out]

\* A fetchOverview call suspended at an await: at "fetch" it waits for
\* $fetch, at "auth" for handleAuthError's promise inside the catch block.
Request(id, headers, pc, out, thrown, isAuth) ==
    [id |-> id, headers |-> headers, pc |-> pc,
     out |-> out, thrown |-> thrown, isAuth |-> isAuth]

Intervals == {DefaultIntervalMs}

Credentials == [authUser |-> Some("user"), authToken |-> Some("token")]
NoCredentials == [authUser |-> None, authToken |-> None]

Init ==
    /\ overview = None
    /\ recentActivity = <<>>
    /\ loading = FALSE
    /\ error = None
    /\ lastFetched = None
    /\ now = 0
    /\ inflight = {}
    /\ issued = 0
    /\ client \in BOOLEAN
    /\ localStorage = IF client THEN Credentials ELSE NoCredentials
    /\ cookie = Some("token")
    /\ timers = {}
    /\ pendingRedirects = 0
    /\ route = "/admin/integrations"
    /\ op = Op("init", FALSE, NoOutcome)
    /\ ret = None

\* getAuthHeaders: the token of localStorage in a client, else the cookie's.
GetAuthHeaders ==
    LET stored == IF client THEN localStorage.authToken ELSE None
    IN  IF Truthy(stored) THEN stored
        ELSE IF Truthy(cookie) THEN cookie ELSE None

\* The opening test with the staleness flag not negated.
UseCacheWhenStale(forceRefresh) ==
    ~forceRefresh /\ NeedsRefresh /\ overview # None

\* The opening test without the forceRefresh parameter.
UseCacheIgnoringForce(forceRefresh) ==
    ~NeedsRefresh /\ overview # None

\* The test that opens fetchOverview: not forced, not stale, and a snapshot
\* is cached.
UseCache(forceRefresh) ==
    ~forceRefresh /\ ~NeedsRefresh /\ overview # None

\* The early return of fetchOverview.
ReturnCached ==
    /\ ret' = Some(Result(TRUE, overview, None))
    /\ UNCHANGED <<storeVars, inflight, issued>>

\* The start of a fetch without setError(null).
StartFetchKeepError ==
    /\ issued < MaxRequests
    /\ Cardinality(inflight) < MaxInFlight
    /\ loading' = TRUE
    /\ issued' = issued + 1
    /\ inflight' = inflight \cup
          {Request(issued + 1, GetAuthHeaders, "fetch", NoOutcome, NoErrorObject, FALSE)}
    /\ ret' = None
    /\ UNCHANGED <<overview, recentActivity, lastFetched, error>>

\* The start of a fetch that joins the request in flight when loading is
\* already true.
StartFetchUnlessLoading ==
    IF loading /\ inflight # {}
    THEN /\ ret' = None
         /\ UNCHANGED <<storeVars, inflight, issued>>
    ELSE /\ issued < MaxRequests
         /\ Cardinality(inflight) < MaxInFlight
         /\ loading' = TRUE
         /\ error' = None
         /\ issued' = issued + 1
         /\ inflight' = inflight \cup
               {Request(issued + 1, GetAuthHeaders, "fetch", NoOutcome, NoErrorObject, FALSE)}
         /\ ret' = None
         /\ UNCHANGED <<overview, recentActivity, lastFetched>>

\* fetchOverview from setLoading(true) to the await of $fetch.
StartFetch ==
    /\ issued < MaxRequests
    /\ Cardinality(inflight) < MaxInFlight
    /\ loading' = TRUE
    /\ error' = None
    /\ issued' = issued + 1
    /\ inflight' = inflight \cup
          {Request(issued + 1, GetAuthHeaders, "fetch", NoOutcome, NoErrorObject, FALSE)}
    /\ ret' = None
    /\ UNCHANGED <<overview, recentActivity, lastFetched>>

\* fetchOverview up to its first await: the cached answer, or loading set,
\* error cleared and the request issued.
FetchOverview(forceRefresh) ==
    IF UseCache(forceRefresh) THEN ReturnCached ELSE StartFetch

\* A caller calls fetchOverview(forceRefresh).
CallFetchOverview(forceRefresh) ==
    /\ FetchOverview(forceRefresh)
    /\ op' = Op("fetchOverview", forceRefresh, NoOutcome)
    /\ UNCHANGED <<now, authVars, client, timers, route>>

\* A caller calls refreshOverview().
RefreshOverview ==
    /\ FetchOverview(TRUE)
    /\ op' = Op("refreshOverview", TRUE, NoOutcome)
    /\ UNCHANGED <<now, authVars, client, timers, route>>

\* handleAuthError: on a 401 the credentials are dropped and the redirect
\* is scheduled; its value is whether the error was a 401.
HandleAuthError(err) ==
    IF IsAuthError(err)
    THEN /\ IF client
            THEN /\ localStorage' = NoCredentials
                 /\ pendingRedirects' = pendingRedirects + 1
            ELSE UNCHANGED <<localStorage, pendingRedirects>>
         /\ cookie' = None
    ELSE UNCHANGED authVars

\* The success branch writing the store only for the newest request issued.
SucceedFetchFenced(r, response) ==
    /\ IF r.id = issued
       THEN /\ overview' = response.data
            /\ lastFetched' = Some(now)
            /\ recentActivity' = GenerateRecentActivity(response.data, now, recentActivity)
       ELSE UNCHANGED <<overview, lastFetched, recentActivity>>
    /\ ret' = Some(Result(TRUE, response.data, response.message))
    /\ loading' = FALSE
    /\ inflight' = inflight \ {r}
    /\ UNCHANGED <<error, authVars>>

\* The success branch without the assignment of lastFetched.
SucceedFetchNoTimestamp(r, response) ==
    /\ overview' = response.data
    /\ recentActivity' = GenerateRecentActivity(response.data, now, recentActivity)
    /\ ret' = Some(Result(TRUE, response.data, response.message))
    /\ loading' = FALSE
    /\ inflight' = inflight \ {r}
    /\ UNCHANGED <<lastFetched, error, authVars>>

\* The try block after $fetch resolved with status success, through the
\* finally block.
SucceedFetch(r, response) ==
    /\ overview' = response.data
    /\ lastFetched' = Some(now)
    /\ recentActivity' = GenerateRecentActivity(response.data, now, recentActivity)
    /\ ret' = Some(Result(TRUE, response.data, response.message))
    /\ loading' = FALSE
    /\ inflight' = inflight \ {r}
    /\ UNCHANGED <<error, authVars>>

\* The catch block up to its await: the error caught is the rejection, or
\* new Error(response.message) thrown by the try block.
CatchFetch(r, out) ==
    LET thrown == IF out.rejected THEN out.err ELSE NewError(out.message)
    IN  /\ HandleAuthError(thrown)
        /\ inflight' = (inflight \ {r}) \cup
              {Request(r.id, r.headers, "auth", out, thrown, IsAuthError(thrown))}
        /\ ret' = None
        /\ UNCHANGED storeVars

\* $fetch of a suspended call settles with outcome out.  Each response
\* arrives in a task of its own, after the continuations of the one before.
Resolve(r, out) ==
    /\ r.pc = "fetch"
    /\ \A q \in inflight : q.pc = "fetch"
    /\ IF ~out.rejected /\ out.status = "success"
       THEN SucceedFetch(r, out)
       ELSE CatchFetch(r, out)
    /\ op' = Op("resolve", FALSE, out)
    /\ UNCHANGED <<now, issued, client, timers, route>>

\* The catch block without the finally block: loading is not reset.
FailFetchNoFinally(r) ==
    /\ IF ~r.isAuth
       THEN LET errorMessage == HandleError(r.thrown, FallbackMessage)
            IN  /\ error' = Some(errorMessage)
                /\ ret' = Some(Result(FALSE, None, Some(errorMessage)))
       ELSE /\ ret' = Some(Result(FALSE, None, Some(AuthRequiredMessage)))
            /\ UNCHANGED error
    /\ inflight' = inflight \ {r}
    /\ UNCHANGED <<overview, recentActivity, lastFetched, loading>>

\* The catch block dropping the cache when the fetch failed.
FailFetchDropCache(r) ==
    /\ IF ~r.isAuth
       THEN LET errorMessage == HandleError(r.thrown, FallbackMessage)
            IN  /\ error' = Some(errorMessage)
                /\ ret' = Some(Result(FALSE, None, Some(errorMessage)))
       ELSE /\ ret' = Some(Result(FALSE, None, Some(AuthRequiredMessage)))
            /\ UNCHANGED error
    /\ loading' = FALSE
    /\ inflight' = inflight \ {r}
    /\ overview' = None
    /\ recentActivity' = <<>>
    /\ lastFetched' = None

\* The catch block throwing the error on to the caller instead of returning
\* a result.
FailFetchRethrow(r) ==
    /\ IF ~r.isAuth
       THEN error' = Some(HandleError(r.thrown, FallbackMessage))
       ELSE UNCHANGED error
    /\ ret' = None
    /\ loading' = FALSE
    /\ inflight' = inflight \ {r}
    /\ UNCHANGED <<overview, recentActivity, lastFetched>>

\* The catch block after handleAuthError, through the finally block.
FailFetch(r) ==
    /\ IF ~r.isAuth
       THEN LET errorMessage == HandleError(r.thrown, FallbackMessage)
            IN  /\ error' = Some(errorMessage)
                /\ ret' = Some(Result(FALSE, None, Some(errorMessage)))
       ELSE /\ ret' = Some(Result(FALSE, None, Some(AuthRequiredMessage)))
            /\ UNCHANGED error
    /\ loading' = FALSE
    /\ inflight' = inflight \ {r}
    /\ UNCHANGED <<overview, recentActivity, lastFetched>>

Settle(r) ==
    /\ r.pc = "auth"
    /\ FailFetch(r)
    /\ op' = Op("settle", FALSE, r.out)
    /\ UNCHANGED <<now, issued, authVars, client, timers, route>>

\* clearOverview without the reset of lastFetched.
ClearOverviewKeepLastFetched ==
    /\ overview' = None
    /\ recentActivity' = <<>>
    /\ error' = None
    /\ op' = Op("clearOverview", FALSE, NoOutcome)
    /\ ret' = None
    /\ UNCHANGED <<lastFetched, loading, now, inflight, issued, authVars, client,
                   timers, route>>

ClearOverview ==
    /\ overview' = None
    /\ recentActivity' = <<>>
    /\ error' = None
    /\ lastFetched' = None
    /\ op' = Op("clearOverview", FALSE, NoOutcome)
    /\ ret' = None
    /\ UNCHANGED <<loading, now, inflight, issued, authVars, client, timers, route>>

\* startAutoRefresh(intervalMs): setInterval in a client, nothing elsewhere.
StartAutoRefresh(intervalMs) ==
    /\ IF client
       THEN /\ Cardinality(timers) < MaxTimers
            /\ timers' = timers \cup
                  {[id |-> Cardinality(timers) + 1, interval |-> intervalMs,
                    due |-> now + intervalMs]}
       ELSE UNCHANGED timers
    /\ op' = Op("startAutoRefresh", FALSE, NoOutcome)
    /\ ret' = None
    /\ UNCHANGED <<storeVars, now, inflight, issued, authVars, client, route>>

\* The interval callback without the test of loading.
TickNoGuard(t) ==
    /\ t.due = now
    /\ \A q \in inflight : q.pc = "fetch"
    /\ timers' = (timers \ {t}) \cup {[t EXCEPT !.due = now + t.interval]}
    /\ FetchOverview(FALSE)
    /\ op' = Op("tick", FALSE, NoOutcome)
    /\ UNCHANGED <<now, authVars, client, route>>

\* The interval callback forcing the fetch, as refreshOverview would.
TickForced(t) ==
    /\ t.due = now
    /\ \A q \in inflight : q.pc = "fetch"
    /\ timers' = (timers \ {t}) \cup {[t EXCEPT !.due = now + t.interval]}
    /\ IF ~loading
       THEN FetchOverview(TRUE)
       ELSE ret' = None /\ UNCHANGED <<storeVars, inflight, issued>>
    /\ op' = Op("tick", FALSE, NoOutcome)
    /\ UNCHANGED <<now, authVars, client, route>>

\* The interval callback: fetchOverview() unless loading.
Tick(t) ==
    /\ t.due = now
    /\ \A q \in inflight : q.pc = "fetch"
    /\ timers' = (timers \ {t}) \cup {[t EXCEPT !.due = now + t.interval]}
    /\ IF ~loading
       THEN FetchOverview(FALSE)
       ELSE ret' = None /\ UNCHANGED <<storeVars, inflight, issued>>
    /\ op' = Op("tick", FALSE, NoOutcome)
    /\ UNCHANGED <<now, authVars, client, route>>

\* The timeout callback of handleAuthError: navigateTo('/login').
NavigateToLogin ==
    /\ pendingRedirects > 0
    /\ \A q \in inflight : q.pc = "fetch"
    /\ pendingRedirects' = pendingRedirects - 1
    /\ route' = "/login"
    /\ op' = Op("navigateTo", FALSE, NoOutcome)
    /\ ret' = None
    /\ UNCHANGED <<storeVars, now, inflight, issued, localStorage, cookie, client,
                   timers>>

\* Time passes.  Continuations waiting on a settled promise, the 500 ms
\* redirect timeout and an interval that is due all run before that.
Advance ==
    /\ now + ClockStepMs <= MaxClockSteps * ClockStepMs
    /\ \A r \in inflight : r.pc = "fetch"
    /\ pendingRedirects = 0
    /\ \A t \in timers : t.due > now
    /\ now' = now + ClockStepMs
    /\ op' = Op("advance", FALSE, NoOutcome)
    /\ ret' = None
    /\ UNCHANGED <<storeVars, inflight, issued, authVars, client, timers, route>>

Next ==
    \/ \E forceRefresh \in BOOLEAN : CallFetchOverview(forceRefresh)
    \/ RefreshOverview
    \/ \E r \in inflight, out \in Outcomes : Resolve(r, out)
    \/ \E r \in inflight : Settle(r)
    \/ ClearOverview
    \/ \E intervalMs \in Intervals : StartAutoRefresh(intervalMs)
    \/ \E t \in timers : Tick(t)
    \/ NavigateToLogin
    \/ Advance

Spec == Init /\ [][Next]_vars

\* The store driven by its callers alone, time standing still, when every
\* request issued is answered: $fetch of each suspended call settles, and
\* the continuation after handleAuthError runs.
NextLive ==
    \/ \E forceRefresh \in BOOLEAN : CallFetchOverview(forceRefresh)
    \/ RefreshOverview
    \/ \E r \in inflight, out \in Outcomes : Resolve(r, out)
    \/ \E r \in inflight : Settle(r)
    \/ ClearOverview
    \/ NavigateToLogin

SpecLive ==
    /\ Init
    /\ [][NextLive]_vars
    /\ \A id \in 1..MaxRequests :
          WF_vars(\E r \in inflight, out \in Outcomes : r.id = id /\ Resolve(r, out))
    /\ WF_vars(\E r \in inflight : Settle(r))

-----------------------------------------------------------------------------
(* The store with startAutoRefresh as its only caller: one timer of the
   default interval in a client, every request answered with success after
   a latency that is positive and shorter than the interval *)

InitAuto == Init /\ client

\* startAutoRefresh() called once, at any time.
StartAutoRefreshOnce ==
    /\ timers = {}
    /\ StartAutoRefresh(DefaultIntervalMs)

\* A request issued by a tick is answered with success, later than the
\* tick that issued it.
ResolveAuto ==
    \E r \in inflight, out \in SuccessOutcomes :
        /\ \A t \in timers : now > t.due - t.interval
        /\ Resolve(r, out)

\* One minute passes: not past a tick that is due, and not up to the next
\* tick while a request is in flight.
AdvanceAuto ==
    /\ now + AutoStepMs <= MaxAutoClockSteps * AutoStepMs
    /\ \A t \in timers : t.due > now
    /\ inflight # {} => \A t \in timers : now + AutoStepMs < t.due
    /\ now' = now + AutoStepMs
    /\ op' = Op("advance", FALSE, NoOutcome)
    /\ ret' = None
    /\ UNCHANGED <<storeVars, inflight, issued, authVars, client, timers, route>>

NextAuto ==
    \/ StartAutoRefreshOnce
    \/ \E t \in timers : Tick(t)
    \/ ResolveAuto
    \/ AdvanceAuto

SpecAuto == InitAuto /\ [][NextAuto]_vars

-----------------------------------------------------------------------------
(* generateRecentActivity on its own: every snapshot, at several times *)

DeriveTimes == {0, FiveMinutesMs, 24 * 60 * 60 * 1000 + 1}

InitDerive ==
    /\ overview \in {None} \cup {Some(o) : o \in AllOverviews}
    /\ recentActivity \in {<<>>, SortNewestFirst(PushedActivities(OverviewB, 0))}
    /\ now \in DeriveTimes
    /\ loading = FALSE
    /\ error = None
    /\ lastFetched = None
    /\ inflight = {}
    /\ issued = 0
    /\ client = TRUE
    /\ localStorage = Credentials
    /\ cookie = Some("token")
    /\ timers = {}
    /\ pendingRedirects = 0
    /\ route = "/admin/integrations"
    /\ op = Op("init", FALSE, NoOutcome)
    /\ ret = None

\* The store's generateRecentActivity() action.
DeriveActivity ==
    /\ op.name = "init"
    /\ recentActivity' = GenerateRecentActivity(overview, now, recentActivity)
    /\ op' = Op("generateRecentActivity", FALSE, NoOutcome)
    /\ UNCHANGED <<overview, loading, error, lastFetched, now, inflight, issued,
                   authVars, client, timers, route, ret>>

NextDerive == DeriveActivity

SpecDerive == InitDerive /\ [][NextDerive]_vars

-----------------------------------------------------------------------------
(* Vocabulary of the properties *)

\* The step was a fetchOverview(false): a caller's, or the interval
\* callback's when the store is not loading.
NonForcedCallStep ==
    \/ op'.name = "fetchOverview" /\ ~op'.force
    \/ op'.name = "tick" /\ ~loading

\* The step was a fetchOverview(true) or a refreshOverview().
ForcedCallStep ==
    \/ op'.name = "fetchOverview" /\ op'.force
    \/ op'.name = "refreshOverview"

\* The cache was populated less than five minutes ago.
PopulatedRecently ==
    /\ overview # None
    /\ lastFetched # None
    /\ now - The(lastFetched) < FiveMinutesMs

\* A response with status success, a response with another status, a
\* rejection carrying a 401 in either shape, and any other rejection.
IsSuccess(out) == ~out.rejected /\ out.status = "success"
IsLogicalFailure(out) == ~out.rejected /\ out.status # "success"
Is401(out) ==
    out.rejected /\ (out.err.statusCode = Some(401) \/ out.err.responseStatus = Some(401))
IsOtherRejection(out) == out.rejected /\ ~Is401(out)

\* The step completed a fetch: a suspended call ran to its end.
CompletionStep == Cardinality(inflight') < Cardinality(inflight)

-----------------------------------------------------------------------------
(* Properties *)

\* C1: a fetchOverview(false) made while a snapshot is cached and the
\* staleness flag is false (in particular on a cache populated less than
\* five minutes ago) issues no request, returns {success: true, data: the
\* cached snapshot} and leaves overview, loading, error, lastFetched and
\* recentActivity as they were.
C1_DedupPath ==
    [][(NonForcedCallStep /\ overview # None /\ (~NeedsRefresh \/ PopulatedRecently))
         => /\ issued' = issued
            /\ inflight' = inflight
            /\ ret' = Some(Result(TRUE, overview, None))
            /\ UNCHANGED storeVars]_vars

\* C1 happens: a non-forced call answered from a cache populated earlier.
C1_Witness ==
    /\ op.name = "fetchOverview" /\ ~op.force
    /\ PopulatedRecently
    /\ now > The(lastFetched)
    /\ issued = 1
    /\ inflight = {}
    /\ ret = Some(Result(TRUE, overview, None))

\* C2: every fetchOverview(true) and every refreshOverview() issues exactly
\* one request, whatever the store holds and whether or not it is stale.
C2_ForcedAlwaysFetches ==
    [][ForcedCallStep
         => /\ issued' = issued + 1
            /\ Cardinality(inflight') = Cardinality(inflight) + 1
            /\ \E r \in inflight' \ inflight : r.pc = "fetch"]_vars

\* C2 happens: a forced call on a fresh cache has a request in flight.
C2_Witness ==
    /\ op.name \in {"fetchOverview", "refreshOverview"} /\ op.force
    /\ PopulatedRecently
    /\ ~NeedsRefresh
    /\ issued = 2
    /\ inflight # {}

\* C3 as stated: the staleness flag is true without a fetch, false for now
\* in [T, T + 5 min) and true for every now >= T + 5 min, T + 5 min included.
C3_StaleAtFiveMinutes ==
    /\ lastFetched = None => NeedsRefresh
    /\ (lastFetched # None /\ now >= The(lastFetched))
         => (NeedsRefresh <=> now - The(lastFetched) >= FiveMinutesMs)

\* C3 amended: the staleness flag is true without a fetch, false for now
\* in [T, T + 5 min], T + 5 min included, and true for every now > T + 5 min.
C3_StaleAfterFiveMinutes ==
    /\ lastFetched = None => NeedsRefresh
    /\ (lastFetched # None /\ now >= The(lastFetched))
         => (NeedsRefresh <=> now - The(lastFetched) > FiveMinutesMs)

\* C3 happens: a snapshot exactly five minutes old, which is not stale.
C3_Witness ==
    /\ lastFetched # None
    /\ now - The(lastFetched) = FiveMinutesMs
    /\ ~NeedsRefresh

\* C4: loading is false whenever no fetchOverview call is suspended, and
\* every completion of a fetch leaves loading false.
C4_LoadingNotStuck ==
    /\ [](inflight = {} => loading = FALSE)
    /\ [][CompletionStep => loading' = FALSE]_vars

\* C4 happens: a failed fetch has completed and nothing is in flight.
C4_Witness ==
    /\ op.name = "settle"
    /\ inflight = {}
    /\ issued > 0
    /\ loading = FALSE

\* C5: overview, lastFetched and recentActivity change only when a fetch
\* completes with a success response or clearOverview runs; every other
\* step, the completion of a failed fetch included, leaves all three alone.
C5_CacheUntouchedOnFailure ==
    [][(op'.name = "clearOverview" \/ (op'.name = "resolve" /\ IsSuccess(op'.out)))
         \/ UNCHANGED <<overview, lastFetched, recentActivity>>]_vars

\* C5 happens: a failed fetch completed and the snapshot and log of the
\* fetch before it are still there.
C5_Witness ==
    /\ op.name = "settle"
    /\ error # None
    /\ overview # None
    /\ lastFetched # None
    /\ recentActivity # <<>>

\* The message the chain picks from an error object: data.message, else
\* message, else the fallback string; absent and empty strings do not count.
ChainMessage(err) ==
    IF err.dataMessage # None /\ The(err.dataMessage) # "" THEN The(err.dataMessage)
    ELSE IF err.message # None /\ The(err.message) # "" THEN The(err.message)
    ELSE "Failed to fetch integrations overview"

\* C6: a 401 in either shape clears the cookie and, in a client, removes
\* authUser and authToken from localStorage and schedules one redirect;
\* the call returns {success: false, message: "Authentication required"};
\* neither step writes error.
C6_AuthFailure ==
    /\ [][(op'.name = "resolve" /\ Is401(op'.out))
            => /\ cookie' = None
               /\ IF client
                  THEN /\ localStorage' = [authUser |-> None, authToken |-> None]
                       /\ pendingRedirects' = pendingRedirects + 1
                  ELSE UNCHANGED <<localStorage, pendingRedirects>>
               /\ error' = error]_vars
    /\ [][(op'.name = "settle" /\ Is401(op'.out))
            => /\ ret' = Some(Result(FALSE, None, Some("Authentication required")))
               /\ error' = error]_vars

\* C6 happens: a fetch in a client ended on a nested 401.
C6_Witness ==
    /\ op.name = "settle"
    /\ op.out.rejected
    /\ op.out.err.statusCode = None
    /\ op.out.err.responseStatus = Some(401)
    /\ client
    /\ cookie = None
    /\ localStorage = NoCredentials
    /\ pendingRedirects = 1
    /\ error = None
    /\ ret = Some(Result(FALSE, None, Some("Authentication required")))

\* C7 as stated: a failure without a 401 stores and returns the message of
\* the chain, and for a response with a status other than success that
\* message is the response's message.
C7_ResponseMessageAlways ==
    [][(op'.name = "settle" /\ ~Is401(op'.out))
         => LET m == IF IsLogicalFailure(op'.out)
                     THEN op'.out.message
                     ELSE Some(ChainMessage(op'.out.err))
            IN  /\ error' = m
                /\ ret' = Some(Result(FALSE, None, m))]_vars

\* C7 amended: a failure without a 401 stores and returns the message of
\* the chain; for a response with a status other than success that message
\* is the response's message when it is a non-empty string, and the
\* fallback string when the response has no message or an empty one.
C7_MessageChain ==
    [][(op'.name = "settle" /\ ~Is401(op'.out))
         => LET m == IF IsLogicalFailure(op'.out)
                     THEN IF op'.out.message # None /\ The(op'.out.message) # ""
                          THEN The(op'.out.message)
                          ELSE "Failed to fetch integrations overview"
                     ELSE ChainMessage(op'.out.err)
            IN  /\ error' = Some(m)
                /\ ret' = Some(Result(FALSE, None, Some(m)))]_vars

\* C7 happens: a response with status error and no message ended a fetch,
\* and the fallback string is stored and returned.
C7_Witness ==
    /\ op.name = "settle"
    /\ IsLogicalFailure(op.out)
    /\ op.out.message = None
    /\ error = Some("Failed to fetch integrations overview")
    /\ ret = Some(Result(FALSE, None, Some("Failed to fetch integrations overview")))

\* C8: every step that issues a request leaves error absent, and error
\* takes a new message only when a fetch that failed without a 401
\* completes.
C8_ErrorLifecycle ==
    /\ [][issued' > issued => error' = None]_vars
    /\ [][(error' # None /\ error' # error)
            => /\ op'.name = "settle"
               /\ ~Is401(op'.out)
               /\ ~IsSuccess(op'.out)]_vars

\* C8 happens: the second of two fetches was rejected without a 401 and
\* its message is in error.
C8_Witness ==
    /\ op.name = "settle"
    /\ IsOtherRejection(op.out)
    /\ issued = 2
    /\ error = Some(ChainMessage(op.out.err))

MinuteMs == 60 * 1000

\* The entries the rules give for snapshot o at time t, as <<id, type,
\* timestamp>>.
ExpectedActivity(o, t) ==
    (IF o.integrationStatus.slack = "connected"
     THEN {<<"slack-sync", "success", t - 2 * MinuteMs>>} ELSE {})
    \cup
    (IF o.integrationStatus.teams = "connected"
     THEN {<<"teams-sync", "success", t - 5 * MinuteMs>>} ELSE {})
    \cup
    (IF o.integrationStatus.whatsapp = "connected"
     THEN {<<"whatsapp-sync", "success", t - 10 * MinuteMs>>} ELSE {})
    \cup
    (IF o.integrationStatus.whatsapp # "connected"
     THEN {<<"whatsapp-setup", "warning", t - 24 * 60 * MinuteMs>>} ELSE {})
    \cup
    (IF o.todayMessages > 0
     THEN {<<"token-usage", "info", t - 60 * MinuteMs>>} ELSE {})

EntryKeys(log) == {<<log[i].id, log[i].type, log[i].timestamp>> : i \in DOMAIN log}

\* C9: the completion of a fetch with a success response replaces overview
\* by the response data, sets lastFetched to the time of completion and
\* replaces recentActivity by the log of the new snapshot alone: it holds
\* the entries of the new snapshot and no other, whatever it held before.
C9_SuccessReplaces ==
    [][(op'.name = "resolve" /\ IsSuccess(op'.out))
         => /\ overview' = op'.out.data
            /\ lastFetched' = Some(now)
            /\ recentActivity' = GenerateRecentActivity(op'.out.data, now, <<>>)
            /\ EntryKeys(recentActivity') = ExpectedActivity(The(op'.out.data), now)
            /\ Len(recentActivity') = Cardinality(ExpectedActivity(The(op'.out.data), now))]_vars

\* C9 happens: a second fetch succeeded, later than the first, with the
\* snapshot that has no token usage.
C9_Witness ==
    /\ op.name = "resolve"
    /\ IsSuccess(op.out)
    /\ issued = 2
    /\ now > 0
    /\ overview = Some(OverviewB)
    /\ lastFetched = Some(now)
    /\ Len(recentActivity) = 1

IndexOf(log, id) == CHOOSE i \in DOMAIN log : log[i].id = id

\* C10: the derived log holds exactly the entries whose rule holds, each
\* once, ordered by timestamp descending; slack connected, teams connected,
\* whatsapp not connected and 120 messages gives 4 entries, slack-sync
\* before token-usage.
C10_ActivityDerivation ==
    (op.name = "generateRecentActivity" /\ overview # None)
      => LET o == The(overview)
             log == recentActivity
         IN  /\ EntryKeys(log) = ExpectedActivity(o, now)
             /\ Len(log) = Cardinality(ExpectedActivity(o, now))
             /\ \A i, j \in DOMAIN log : i < j => log[i].timestamp > log[j].timestamp
             /\ (/\ o.integrationStatus.slack = "connected"
                 /\ o.integrationStatus.teams = "connected"
                 /\ o.integrationStatus.whatsapp = "disconnected"
                 /\ o.todayMessages = 120)
                  => /\ Len(log) = 4
                     /\ IndexOf(log, "slack-sync") < IndexOf(log, "token-usage")

\* C10 happens: the log of the snapshot with slack and teams connected,
\* whatsapp disconnected and 120 messages, derived over an older log.
C10_Witness ==
    /\ op.name = "generateRecentActivity"
    /\ overview = Some(OverviewA)
    /\ Len(recentActivity) = 4
    /\ recentActivity[1].id = "slack-sync"
    /\ recentActivity[2].id = "teams-sync"
    /\ recentActivity[3].id = "token-usage"
    /\ recentActivity[4].id = "whatsapp-setup"

\* C11: clearOverview(), in any state, leaves overview absent,
\* recentActivity empty, error absent and lastFetched absent, does not
\* touch loading, and the staleness flag read right after it is true.
C11_ClearResets ==
    [][op'.name = "clearOverview"
         => /\ overview' = None
            /\ recentActivity' = <<>>
            /\ error' = None
            /\ lastFetched' = None
            /\ loading' = loading
            /\ NeedsRefresh']_vars

\* C11 happens: clearOverview ran while a request was in flight, after an
\* earlier one had completed, and loading is still true.
C11_Witness ==
    /\ op.name = "clearOverview"
    /\ issued = 2
    /\ Cardinality(inflight) = 1
    /\ loading = TRUE
    /\ overview = None
    /\ lastFetched = None
    /\ NeedsRefresh

\* The request a step took out of flight.
Completed == CHOOSE r \in inflight : r \notin inflight'

\* C12: a success response always overwrites overview, lastFetched and
\* recentActivity, also when it answers a request older than the newest
\* one issued, and also when the step before it was the success response
\* of the other request in flight: the response that resolves last wins.
C12_LastWriteWins ==
    /\ [][(op'.name = "resolve" /\ IsSuccess(op'.out) /\ Completed.id < issued)
            => /\ overview' = op'.out.data
               /\ lastFetched' = Some(now)
               /\ recentActivity' = GenerateRecentActivity(op'.out.data, now, <<>>)]_vars
    /\ [][(/\ op.name = "resolve" /\ IsSuccess(op.out)
           /\ op'.name = "resolve" /\ IsSuccess(op'.out))
            => /\ overview' = op'.out.data
               /\ lastFetched' = Some(now)
               /\ recentActivity' = GenerateRecentActivity(op'.out.data, now, <<>>)]_vars

\* C12 happens: of two requests in flight the newer one has just resolved
\* with success and written the store; the older one is still in flight.
C12_Witness ==
    /\ op.name = "resolve"
    /\ IsSuccess(op.out)
    /\ issued = 2
    /\ overview = op.out.data
    /\ lastFetched = Some(now)
    /\ Cardinality(inflight) = 1
    /\ \A r \in inflight : r.id = 1 /\ r.pc = "fetch"

\* C13: a tick that finds loading true starts no fetch and changes nothing
\* of the store; a tick that finds loading false runs fetchOverview(false),
\* which issues one request when the snapshot is absent or stale and
\* answers from the cache otherwise; startAutoRefresh registers one timer
\* in a client and none elsewhere.
C13_AutoRefreshTick ==
    /\ [][(op'.name = "tick" /\ loading)
            => UNCHANGED <<storeVars, inflight, issued, authVars, route>>]_vars
    /\ [][(op'.name = "tick" /\ ~loading)
            => IF overview = None \/ NeedsRefresh
               THEN /\ issued' = issued + 1
                    /\ Cardinality(inflight') = Cardinality(inflight) + 1
                    /\ loading' = TRUE
               ELSE /\ issued' = issued
                    /\ inflight' = inflight
                    /\ ret' = Some(Result(TRUE, overview, None))
                    /\ UNCHANGED storeVars]_vars
    /\ [][op'.name = "startAutoRefresh"
            => IF client
               THEN Cardinality(timers') = Cardinality(timers) + 1
               ELSE timers' = timers]_vars
    /\ [](~client => timers = {})

\* C13 happens: a tick ran on a stale snapshot while request 2 is in flight
\* with loading true, the timer being set for the next interval.
C13_Witness ==
    /\ op.name = "tick"
    /\ client
    /\ overview # None
    /\ NeedsRefresh
    /\ loading = TRUE
    /\ issued = 2
    /\ \E r \in inflight : r.id = 2 /\ r.pc = "fetch"
    /\ \A t \in timers : t.due = now + t.interval
\* C14: every fetchOverview call ends in a result: the step that completes
\* a call returns {success: true, ...} after a success response and
\* {success: false, message} with a message after a logical failure, a 401
\* or any other rejection, and a call answered from the cache returns at
\* once; when every request issued is answered, every call in flight
\* completes and loading becomes false.
C14_EveryCallEnds ==
    /\ [][CompletionStep
            => /\ ret' # None
               /\ IF IsSuccess(op'.out)
                  THEN The(ret').success = TRUE
                  ELSE /\ The(ret').success = FALSE
                       /\ The(ret').message # None]_vars
    /\ [][(op'.name \in {"fetchOverview", "refreshOverview"} /\ issued' = issued)
            => ret' # None /\ The(ret').success = TRUE]_vars
    /\ \A id \in 1..MaxRequests :
          (\E r \in inflight : r.id = id) ~> ~(\E r \in inflight : r.id = id)
    /\ loading ~> ~loading

\* C14 happens: the second of two calls completed after a rejection that is
\* no 401, with {success: false, message}, and nothing is in flight.
C14_Witness ==
    /\ op.name = "settle"
    /\ IsOtherRejection(op.out)
    /\ issued = 2
    /\ inflight = {}
    /\ loading = FALSE
    /\ ret # None
    /\ The(ret).success = FALSE
    /\ The(ret).message = Some(ChainMessage(op.out.err))

\* A step in which a caller calls fetchOverview or refreshOverview.
CallStep == op'.name \in {"fetchOverview", "refreshOverview"}

\* C15: no single-flight: a call made while another request is in flight
\* and loading is true, being forced or finding the snapshot absent or
\* stale, issues a request of its own at once, next to the one in flight;
\* two requests are then in flight together.
C15_NoSingleFlight ==
    [][(/\ CallStep
        /\ inflight # {}
        /\ loading
        /\ (op'.force \/ overview = None \/ NeedsRefresh))
         => /\ issued' = issued + 1
            /\ inflight \subseteq inflight'
            /\ Cardinality(inflight') = Cardinality(inflight) + 1
            /\ \A r \in inflight' : r.pc = "fetch" \/ r \in inflight]_vars

\* C15 happens: two non-forced calls on an empty cache have a request each
\* in flight, none yet answered.
C15_Witness ==
    /\ op.name = "fetchOverview" /\ ~op.force
    /\ overview = None
    /\ loading = TRUE
    /\ issued = 2
    /\ Cardinality(inflight) = 2
    /\ \A r \in inflight : r.pc = "fetch"

\* C16 as stated: while a request of fetchOverview is in flight, loading is
\* true.
C16_InFlightImpliesLoading ==
    inflight # {} => loading = TRUE

\* C17: in every reachable state the snapshot is present if and only if
\* lastFetched is present.
C17_SnapshotIffLastFetched ==
    overview # None <=> lastFetched # None

\* C17 happens: after two requests, the later completion a success at a
\* time past the start, the store holds a snapshot and its time.
C17_Witness ==
    /\ op.name = "resolve"
    /\ IsSuccess(op.out)
    /\ issued = 2
    /\ inflight = {}
    /\ now > 0
    /\ overview # None
    /\ lastFetched = Some(now)

\* C18 as stated: right after a fetch completes successfully, error is
\* absent.
C18_NoErrorAfterSuccess ==
    [][(op'.name = "resolve" /\ IsSuccess(op'.out)) => error' = None]_vars

\* C19 as stated: after clearOverview the snapshot, lastFetched and the
\* activity log stay absent until a call started after the clear completes
\* successfully.  In the step that follows a clearOverview, every request
\* in flight was issued before the clear, so that step leaves all three
\* absent.
C19_ClearedStaysCleared ==
    [][op.name = "clearOverview"
         => /\ overview' = None
            /\ lastFetched' = None
            /\ recentActivity' = <<>>]_vars

\* The step is a tick of the auto-refresh timer on a populated cache.
TickOnPopulated == op'.name = "tick" /\ overview # None

\* The age of the snapshot: the time since the last successful completion.
SnapshotAge == now - The(lastFetched)

\* C20: with startAutoRefresh as the only caller, the default interval and
\* requests that succeed after a positive latency shorter than the
\* interval, every tick finds loading false and nothing in flight; a tick
\* on a populated cache issues a request only if the snapshot is more than
\* five minutes old; a tick that comes within one interval of a completion,
\* as the tick after one that issued does, issues none; and at a tick the
\* snapshot is less than two intervals old.
C20_AutoRefreshCadence ==
    /\ [][op'.name = "tick" => (~loading /\ inflight = {})]_vars
    /\ [][(TickOnPopulated /\ issued' > issued) => SnapshotAge > FiveMinutesMs]_vars
    /\ [][(TickOnPopulated /\ SnapshotAge < DefaultIntervalMs)
            => (issued' = issued /\ inflight' = {})]_vars
    /\ [][TickOnPopulated => SnapshotAge < 2 * DefaultIntervalMs]_vars
    /\ [][issued' > issued => op'.name = "tick"]_vars
    /\ [][CompletionStep
            => /\ lastFetched' = Some(now)
               /\ \A t \in timers : now > t.due - t.interval /\ now < t.due]_vars

\* C20 happens: a tick found a snapshot older than one interval and issued
\* the second request.
C20_Witness ==
    /\ op.name = "tick"
    /\ overview # None
    /\ SnapshotAge > DefaultIntervalMs
    /\ SnapshotAge < 2 * DefaultIntervalMs
    /\ issued = 2
    /\ Cardinality(inflight) = 1
    /\ loading = TRUE

====
